---- MODULE Spec2Model ----
(***************************************************************************)
(* Route mapper: the geocode -> route -> synthesize -> render pipeline of  *)
(* src/app.py (desktop window, /api/route, /map) and src/app_web.py        *)
(* (/api/route, /map), with the two adapters and the station synthesizer.  *)
(*                                                                         *)
(* Coordinates are integers in units of 1/111000 degree (the code's        *)
(* metre-to-degree factor), so an offset of max_distance_meters/111000     *)
(* degrees is the integer max_distance_meters.  Strings are sequences of   *)
(* one-character strings.  A Python None is a record whose `some` field is *)
(* FALSE.                                                                  *)
(***************************************************************************)
EXTENDS Integers, Sequences, FiniteSets, TLC

VARIABLES
    entry,         \* the handler serving the current request
    pc,            \* its position in the handler
    rawStart,      \* the start query parameter / text field as supplied
    rawEnd,        \* the end query parameter / text field as supplied
    rawNum,        \* the num_stations query parameter as supplied
    start,         \* local start (stripped)
    end,           \* local end (stripped)
    num_stations,  \* local num_stations
    geoStart,      \* the get_coordinates(start) call of this request
    geoEnd,        \* the get_coordinates(end) call of this request
    routeRes,      \* the get_route call of this request
    synth,         \* the generate_stations_near_start call of this request
    response,      \* what the handler returned / showed
    sPc,           \* synthesizer called on its own: position
    sImpl,         \* ... which file's generate_stations_near_start
    sRoute,        \* ... argument route_coords
    sCount,        \* ... argument num_stations
    sMax,          \* ... argument max_distance_meters
    sDraws,        \* ... the random.uniform draws it consumed
    sStations,     \* ... its return value
    dWindow,       \* the desktop window: "off", "open" or "closed"
    dTempPath,     \* RouteMapperApp.temp_html_path (0 is None)
    dDisk,         \* the temporary files of the window that are on disk
    dCreated,      \* how many temporary files the window has created
    dLast,         \* how the last press of the button ended
    dRemoveFailed, \* an os.remove of closeEvent raised
    mImpl,         \* the /map server: which file runs ("off": none)
    mReq,          \* its /map requests: position, status, response delivered
    mThr,          \* the cleanup thread of each request
    mDisk,         \* the temporary files of the server that are on disk
    mRemovedBy     \* who removed each temporary file

pipeVars == <<entry, pc, rawStart, rawEnd, rawNum, start, end, num_stations,
              geoStart, geoEnd, routeRes, synth, response>>
synthVars == <<sPc, sImpl, sRoute, sCount, sMax, sDraws, sStations>>
deskVars == <<dWindow, dTempPath, dDisk, dCreated, dLast, dRemoveFailed>>
mapVars == <<mImpl, mReq, mThr, mDisk, mRemovedBy>>
vars == <<entry, pc, rawStart, rawEnd, rawNum, start, end, num_stations,
          geoStart, geoEnd, routeRes, synth, response,
          sPc, sImpl, sRoute, sCount, sMax, sDraws, sStations,
          dWindow, dTempPath, dDisk, dCreated, dLast, dRemoveFailed,
          mImpl, mReq, mThr, mDisk, mRemovedBy>>

----------------------------------------------------------------------------
(* Program constants *)

MetersPerDegree == 111000
DefaultNumStations == 3
DesktopNumStations == 4
DefaultMaxDistanceApp == 30
DefaultMaxDistanceWeb == 40
MapMaxDistance == 40
PlacementWindow == 5
CleanupDelay == 30

(* Bounds of the model *)

MaxCount == 3       \* the synthesizer alone is called with counts -1..MaxCount
MaxRouteLen == 2    \* ... and with routes of 0..MaxRouteLen points
LongRouteLen == 7   \* ... and with one long route of LongRouteLen points
MaxPresses == 4     \* temporary files one desktop window creates at most
MaxMapRequests == 2 \* GET /map requests served concurrently

----------------------------------------------------------------------------
(* Small helpers *)

Min(a, b) == IF a < b THEN a ELSE b
Max(a, b) == IF a > b THEN a ELSE b
Abs(x) == IF x < 0 THEN -x ELSE x
Deg(d) == d * MetersPerDegree

(* Python values *)

NoneCoord == [some |-> FALSE, lat |-> 0, lon |-> 0]
SomeCoord(la, lo) == [some |-> TRUE, lat |-> la, lon |-> lo]
NoneNum == [some |-> FALSE, val |-> 0]
SomeNum(n) == [some |-> TRUE, val |-> n]
NoneRoute == [some |-> FALSE, pts |-> <<>>]
SomeRoute(p) == [some |-> TRUE, pts |-> p]

\* truthiness of a coordinate tuple or None: a 2-tuple is always truthy
CoordTruthy(c) == c.some
\* truthiness of a list or None: None and [] are falsy
RouteTruthy(r) == r.some /\ Len(r.pts) > 0

----------------------------------------------------------------------------
(* str.strip() and int(str) *)

IsSpace(c) == c = " "

RECURSIVE LStrip(_)
LStrip(s) == IF Len(s) > 0 /\ IsSpace(Head(s)) THEN LStrip(Tail(s)) ELSE s

RECURSIVE RStrip(_)
RStrip(s) ==
    IF Len(s) > 0 /\ IsSpace(s[Len(s)]) THEN RStrip(SubSeq(s, 1, Len(s) - 1)) ELSE s

Strip(s) == RStrip(LStrip(s))

DigitChars == {"0", "1", "2", "3", "4", "5", "6", "7", "8", "9"}

DigitValue(c) ==
    CASE c = "0" -> 0 [] c = "1" -> 1 [] c = "2" -> 2 [] c = "3" -> 3
      [] c = "4" -> 4 [] c = "5" -> 5 [] c = "6" -> 6 [] c = "7" -> 7
      [] c = "8" -> 8 [] OTHER -> 9

RECURSIVE DigitsValue(_)
DigitsValue(s) ==
    IF Len(s) = 0 THEN 0
    ELSE 10 * DigitsValue(SubSeq(s, 1, Len(s) - 1)) + DigitValue(s[Len(s)])

\* int(s) for a string s: surrounding whitespace, an optional sign, decimal
\* digits; anything else raises ValueError (ok = FALSE)
PyInt(s) ==
    LET t == Strip(s)
        signed == Len(t) > 0 /\ t[1] \in {"+", "-"}
        body == IF signed THEN Tail(t) ELSE t
        good == Len(body) > 0 /\ \A i \in 1..Len(body) : body[i] \in DigitChars
    IN  [ok |-> good,
         val |-> IF ~good THEN 0
                 ELSE IF signed /\ t[1] = "-" THEN -DigitsValue(body)
                 ELSE DigitsValue(body)]

\* request.args.get(name, "") on a parameter that may be missing
ArgOrEmpty(q) == IF q.present THEN q.val ELSE <<>>

\* faulty variant: a malformed value falls back to 0
ParseNumStationsZeroFallback(q) ==
    IF ~q.present THEN DefaultNumStations
    ELSE IF PyInt(q.val).ok THEN PyInt(q.val).val ELSE 0

\* try: int(request.args.get("num_stations", 3)) except ValueError: 3
ParseNumStations(q) ==
    IF ~q.present THEN DefaultNumStations
    ELSE IF PyInt(q.val).ok THEN PyInt(q.val).val ELSE DefaultNumStations

\* faulty variant: only the start address is checked
MissingInputStartOnly(s, e) == Len(s) = 0

\* if not start or not end
MissingInput(s, e) == Len(s) = 0 \/ Len(e) = 0

----------------------------------------------------------------------------
(* Geocoder adapter: get_coordinates *)

Impls == {"app", "app_web"}

\* what geolocator.geocode(address) does: returns a Location, returns None,
\* or raises
GeoKinds == {"location", "no_match", "GeocoderTimedOut", "GeocoderServiceError",
             "OtherException"}
GeoOutcome(k, la, lo) == [kind |-> k, lat |-> la, lon |-> lo]
NoGeoOutcome == GeoOutcome("none", 0, 0)

\* app.py catches (GeocoderTimedOut, GeocoderServiceError) only
get_coordinates_app(o) ==
    CASE o.kind = "location" -> [raised |-> FALSE, value |-> SomeCoord(o.lat, o.lon)]
      [] o.kind \in {"no_match", "GeocoderTimedOut", "GeocoderServiceError"} ->
            [raised |-> FALSE, value |-> NoneCoord]
      [] OTHER -> [raised |-> TRUE, value |-> NoneCoord]

\* app_web.py adds `except Exception`
get_coordinates_web(o) ==
    CASE o.kind = "location" -> [raised |-> FALSE, value |-> SomeCoord(o.lat, o.lon)]
      [] OTHER -> [raised |-> FALSE, value |-> NoneCoord]

get_coordinates(impl, o) ==
    IF impl = "app" THEN get_coordinates_app(o) ELSE get_coordinates_web(o)

----------------------------------------------------------------------------
(* Router adapter: get_route *)

\* what requests.get / raise_for_status / response.json() do.  A body that is
\* not JSON raises requests' JSONDecodeError (a RequestException) or, with an
\* older requests, a plain ValueError: both builds are outcomes.
RouterFailureKinds == {"ConnectionError", "HTTPError", "JSONDecodeError", "ValueError"}
RequestExceptions == {"ConnectionError", "HTTPError", "JSONDecodeError"}

\* one entry of data["routes"]; coordinates are <<lon, lat>> pairs
RouteEntry(hg, cs, hdu, du, hdi, di) ==
    [hasGeometry |-> hg, coordinates |-> cs, hasDuration |-> hdu, duration |-> du,
     hasDistance |-> hdi, distance |-> di]
Body(hr, rs) == [hasRoutes |-> hr, routes |-> rs]
NoBody == Body(FALSE, <<>>)
RouterOutcome(k, b) == [kind |-> k, body |-> b]
NoRouterOutcome == RouterOutcome("none", NoBody)

\* (coord[1], coord[0])
ToLatLon(c) == [lat |-> c[2], lon |-> c[1]]

ConvertCoords(cs) == [i \in 1..Len(cs) |-> ToLatLon(cs[i])]

RouteReturn(net, r, rt, du, di) ==
    [network |-> net, raised |-> r, route |-> rt, duration |-> du, distance |-> di]
RouteNone(net) == RouteReturn(net, FALSE, NoneRoute, NoneNum, NoneNum)
RouteRaised == RouteReturn(TRUE, TRUE, NoneRoute, NoneNum, NoneNum)

\* app.py: only requests.RequestException is caught; data["routes"][0][...]
\* raises KeyError on a missing key
get_route_app(sc, ec, o) ==
    IF ~CoordTruthy(sc) \/ ~CoordTruthy(ec) THEN RouteNone(FALSE)
    ELSE IF o.kind \in RequestExceptions THEN RouteNone(TRUE)
    ELSE IF o.kind = "ValueError" THEN RouteRaised
    ELSE IF o.body.hasRoutes /\ Len(o.body.routes) > 0 THEN
        LET r == o.body.routes[1] IN
        IF ~r.hasGeometry \/ ~r.hasDuration \/ ~r.hasDistance THEN RouteRaised
        ELSE RouteReturn(TRUE, FALSE, SomeRoute(ConvertCoords(r.coordinates)),
                         SomeNum(r.duration), SomeNum(r.distance))
    ELSE RouteNone(TRUE)

\* app_web.py: `except Exception` as well; duration and distance by .get
get_route_web(sc, ec, o) ==
    IF ~CoordTruthy(sc) \/ ~CoordTruthy(ec) THEN RouteNone(FALSE)
    ELSE IF o.kind \in RouterFailureKinds THEN RouteNone(TRUE)
    ELSE IF o.body.hasRoutes /\ Len(o.body.routes) > 0 THEN
        LET r == o.body.routes[1] IN
        IF ~r.hasGeometry THEN RouteNone(TRUE)
        ELSE RouteReturn(TRUE, FALSE, SomeRoute(ConvertCoords(r.coordinates)),
                         IF r.hasDuration THEN SomeNum(r.duration) ELSE NoneNum,
                         IF r.hasDistance THEN SomeNum(r.distance) ELSE NoneNum)
    ELSE RouteNone(TRUE)

get_route(impl, sc, ec, o) ==
    IF impl = "app" THEN get_route_app(sc, ec, o) ELSE get_route_web(sc, ec, o)

----------------------------------------------------------------------------
(* Station synthesizer: generate_stations_near_start *)

\* len(range(n))
RangeLen(n) == IF n > 0 THEN n ELSE 0

\* the number of leading route points stations are anchored at
PlacementPoints(impl, pts) ==
    IF impl = "app" THEN Len(pts) ELSE Min(PlacementWindow, Len(pts))

\* min(i, ... - 1), i counted from 0; the result is a 1-based index
AnchorIndex(impl, pts, i) == Min(i, PlacementPoints(impl, pts) - 1) + 1

\* 90 * 111000 * (0.5 resp. 0.3): the floor of the longitude scale, and
\* 90 * 111000 * max(floor, abs(lat)/90 + floor)
LonScaleFloor(impl) == IF impl = "app" THEN 45 * MetersPerDegree ELSE 27 * MetersPerDegree
LonScale(impl, lat) == Max(LonScaleFloor(impl), Abs(lat) + LonScaleFloor(impl))

\* max_distance_meters / 111000.0, in units of 1/111000 degree
LatBound(m) == m
\* max_distance_meters / (111000.0 * scale), rounded towards zero
LonBound(impl, lat, m) == (m * 90 * MetersPerDegree) \div LonScale(impl, lat)

\* random.uniform(-b, b): the draw u in -2..2 picks -b, -b/2, 0, b/2, b
Uniform(b, u) == IF u >= 0 THEN (u * b) \div 2 ELSE -(((-u) * b) \div 2)

Station(impl, pts, i, m, d) ==
    LET point == pts[AnchorIndex(impl, pts, i)] IN
    [lat |-> point.lat + Uniform(LatBound(m), d[1]),
     lon |-> point.lon + Uniform(LonBound(impl, point.lat, m), d[2])]

\* faulty variant: the loop stops at the end of the route
generate_stations_capped(impl, route, n, m, draws) ==
    IF ~RouteTruthy(route) THEN <<>>
    ELSE [k \in 1..Min(RangeLen(n), Len(route.pts)) |->
              Station(impl, route.pts, k - 1, m, draws[k])]

generate_stations_near_start(impl, route, n, m, draws) ==
    IF ~RouteTruthy(route) THEN <<>>
    ELSE [k \in 1..RangeLen(n) |-> Station(impl, route.pts, k - 1, m, draws[k])]

\* the draws one call consumes: a (lat, lon) pair per loop iteration
DrawsFor(route, n, pairs) ==
    IF ~RouteTruthy(route) THEN {<<>>} ELSE [1..RangeLen(n) -> pairs]

----------------------------------------------------------------------------
(* Entry points and what they return *)

Entries == {"app.generate_map", "app.api_route_web", "app.map_web",
            "app_web.api_route", "app_web.map_view"}
ImplOf(e) == IF e \in {"app_web.api_route", "app_web.map_view"} THEN "app_web" ELSE "app"
IsDesktop(e) == e = "app.generate_map"
IsApi(e) == e \in {"app.api_route_web", "app_web.api_route"}
IsMap(e) == e \in {"app.map_web", "app_web.map_view"}

QueryAbsent == [present |-> FALSE, val |-> <<>>]
Query(s) == [present |-> TRUE, val |-> s]

Message(t, named, a) == [text |-> t, hasAddr |-> named, addr |-> a]
NoMessage == Message("", FALSE, <<>>)

LatLng(c) == [lat |-> c.lat, lng |-> c.lon]
Payload(s, e, r, st, du, di) ==
    [start |-> s, end |-> e, route |-> r, stations |-> st,
     duration |-> du, distance |-> di]
NoPayload == Payload(LatLng(NoneCoord), LatLng(NoneCoord), <<>>, <<>>, NoneNum, NoneNum)

Response(st, rs, f, m, p) ==
    [status |-> st, reason |-> rs, format |-> f, message |-> m, payload |-> p]
NoResponse == Response(0, "none", "none", NoMessage, NoPayload)

\* the desktop shows a dialog (status 0); the web surface answers with a status
FailureFormat(e) ==
    IF IsDesktop(e) THEN "dialog" ELSE IF IsApi(e) THEN "json" ELSE "text"

MissingInputResponse(e) ==
    Response(IF IsDesktop(e) THEN 0 ELSE 400, "missing_input", FailureFormat(e),
             Message(CASE IsDesktop(e) -> "Por favor ingrese direcciones de inicio y final."
                       [] IsApi(e) -> "Se requieren direcciones de inicio y fin"
                       [] e = "app.map_web" -> "Start and end are required"
                       [] OTHER -> "Se requieren direcciones de inicio y fin",
                     FALSE, <<>>),
             NoPayload)

\* faulty variant: the start address is interpolated whichever failed
NotFoundMessageAlwaysStart(e, s, en, sc, ec) ==
    CASE IsDesktop(e) -> Message("No se encontraron coordenadas para: ", TRUE, s)
      [] IsApi(e) -> Message("No se pudieron encontrar coordenadas para: ", TRUE, s)
      [] e = "app.map_web" ->
            Message("No se encontraron coordenadas para alguna direccion", FALSE, <<>>)
      [] OTHER -> Message("No se pudieron encontrar las ubicaciones", FALSE, <<>>)

\* the 404 message: /api/route and the desktop interpolate the address that did
\* not resolve (the start one first), /map does not
NotFoundMessage(e, s, en, sc, ec) ==
    CASE IsDesktop(e) ->
            Message("No se encontraron coordenadas para: ", TRUE,
                    IF ~CoordTruthy(sc) THEN s ELSE en)
      [] IsApi(e) ->
            Message("No se pudieron encontrar coordenadas para: ", TRUE,
                    IF ~CoordTruthy(sc) THEN s ELSE en)
      [] e = "app.map_web" ->
            Message("No se encontraron coordenadas para alguna direccion", FALSE, <<>>)
      [] OTHER -> Message("No se pudieron encontrar las ubicaciones", FALSE, <<>>)

NotFoundResponse(e, s, en, sc, ec) ==
    Response(IF IsDesktop(e) THEN 0 ELSE 404, "address_not_found", FailureFormat(e),
             NotFoundMessage(e, s, en, sc, ec), NoPayload)

NoRouteResponse(e) ==
    Response(IF IsDesktop(e) THEN 0 ELSE 500, "no_route", FailureFormat(e),
             Message(CASE IsDesktop(e) ->
                            "No se pudo obtener la ruta desde el servicio de enrutamiento."
                       [] IsApi(e) ->
                            "No se pudo calcular la ruta entre las ubicaciones especificadas"
                       [] e = "app.map_web" -> "No se pudo obtener la ruta desde OSRM"
                       [] OTHER -> "No se pudo calcular la ruta",
                     FALSE, <<>>),
             NoPayload)

\* an exception leaving the handler: Flask answers 500, the desktop slot dies
UncaughtResponse(e) ==
    Response(IF IsDesktop(e) THEN 0 ELSE 500, "uncaught_exception", "none",
             NoMessage, NoPayload)

\* faulty variant: start and end exchanged
SuccessPayloadSwapped(sc, ec, rt, st, du, di) ==
    Payload(LatLng(ec), LatLng(sc),
            [i \in 1..Len(rt.pts) |-> LatLng(rt.pts[i])],
            [i \in 1..Len(st) |-> LatLng(st[i])], du, di)

\* the success value: the JSON object of /api/route, or what the folium map of
\* /map and of the desktop window shows
SuccessPayload(sc, ec, rt, st, du, di) ==
    Payload(LatLng(sc), LatLng(ec),
            [i \in 1..Len(rt.pts) |-> LatLng(rt.pts[i])],
            [i \in 1..Len(st) |-> LatLng(st[i])], du, di)

SuccessResponse(e, sc, ec, rt, st, du, di) ==
    Response(IF IsDesktop(e) THEN 0 ELSE 200, "ok",
             IF IsDesktop(e) THEN "window" ELSE IF IsApi(e) THEN "json" ELSE "html",
             NoMessage, SuccessPayload(sc, ec, rt, st, du, di))

\* the handler's checks
\* if not start_coords / if not end_coords / if not start_coords or not end_coords
CoordsMissing(sc, ec) == ~CoordTruthy(sc) \/ ~CoordTruthy(ec)

\* faulty variant: if route_coords is None
RouteMissingNoneOnly(rt) == ~rt.some

\* if not route_coords
RouteMissing(rt) == ~RouteTruthy(rt)

\* the arguments of the generate_stations_near_start call
StationCountArg(e, n) == IF IsDesktop(e) THEN DesktopNumStations ELSE n
MaxDistanceArg(e) ==
    CASE IsDesktop(e) -> MapMaxDistance
      [] e = "app.map_web" -> MapMaxDistance
      [] e = "app.api_route_web" -> DefaultMaxDistanceApp
      [] OTHER -> DefaultMaxDistanceWeb

----------------------------------------------------------------------------
(* Inputs *)

StartInputs == {QueryAbsent, Query(<<>>), Query(<<" ">>), Query(<<"A">>),
                Query(<<" ", "A">>)}
EndInputs == {QueryAbsent, Query(<<" ", " ">>), Query(<<"B">>)}
NumInputs == {QueryAbsent, Query(<<>>), Query(<<"x">>), Query(<<"2", ".", "5">>),
              Query(<<"2">>), Query(<<"0">>), Query(<<"-", "5">>),
              Query(<<"+", "1">>), Query(<<" ", "2", " ">>)}

GeoOutcomes ==
    {GeoOutcome("location", Deg(10), Deg(10)), GeoOutcome("location", Deg(10), Deg(11))}
    \cup {GeoOutcome(k, 0, 0) : k \in GeoKinds \ {"location"}}

\* provider geometry, <<lon, lat>> pairs
TwoPoints == << <<Deg(10), Deg(10)>>, <<Deg(11), Deg(10)>> >>
OnePoint == << <<Deg(20), 0>> >>
StraightRoute == RouteEntry(TRUE, TwoPoints, TRUE, 600, TRUE, 5000)
ShortRoute == RouteEntry(TRUE, OnePoint, TRUE, 60, TRUE, 100)

RouterBodies ==
    {Body(FALSE, <<>>), Body(TRUE, <<>>),
     Body(TRUE, <<StraightRoute>>), Body(TRUE, <<ShortRoute, StraightRoute>>),
     Body(TRUE, <<RouteEntry(FALSE, <<>>, TRUE, 600, TRUE, 5000)>>),
     Body(TRUE, <<RouteEntry(TRUE, TwoPoints, FALSE, 0, TRUE, 5000)>>),
     Body(TRUE, <<RouteEntry(TRUE, TwoPoints, TRUE, 600, FALSE, 0)>>),
     Body(TRUE, <<RouteEntry(TRUE, <<>>, TRUE, 0, TRUE, 0)>>)}

RouterOutcomes ==
    {RouterOutcome(k, NoBody) : k \in RouterFailureKinds}
    \cup {RouterOutcome("body", b) : b \in RouterBodies}

\* random.uniform draws of one loop iteration, as (lat, lon) pairs
RequestDraws == {<<-2, 2>>, <<1, -2>>}

----------------------------------------------------------------------------
(* The calls a request records *)

GeoCall(c, o, r, v) == [called |-> c, outcome |-> o, raised |-> r, value |-> v]
NoGeoCall == GeoCall(FALSE, NoGeoOutcome, FALSE, NoneCoord)

RouteCall(c, o, ret) == [called |-> c, outcome |-> o, ret |-> ret]
NoRouteCall == RouteCall(FALSE, NoRouterOutcome, RouteNone(FALSE))

SynthCall(c, n, m, st) == [called |-> c, count |-> n, max |-> m, stations |-> st]
NoSynthCall == SynthCall(FALSE, 0, 0, <<>>)

\* outbound calls made so far in this request
geocoderCalls == (IF geoStart.called THEN 1 ELSE 0) + (IF geoEnd.called THEN 1 ELSE 0)
routerCalls == IF routeRes.called /\ routeRes.ret.network THEN 1 ELSE 0

PipeInit ==
    /\ entry = "none"
    /\ pc = "idle"
    /\ rawStart = QueryAbsent
    /\ rawEnd = QueryAbsent
    /\ rawNum = QueryAbsent
    /\ start = <<>>
    /\ end = <<>>
    /\ num_stations = 0
    /\ geoStart = NoGeoCall
    /\ geoEnd = NoGeoCall
    /\ routeRes = NoRouteCall
    /\ synth = NoSynthCall
    /\ response = NoResponse

SynthOff ==
    /\ sPc = "off"
    /\ sImpl = "app"
    /\ sRoute = NoneRoute
    /\ sCount = 0
    /\ sMax = 0
    /\ sDraws = <<>>
    /\ sStations = <<>>

\* no desktop window
DeskOff ==
    /\ dWindow = "off"
    /\ dTempPath = 0
    /\ dDisk = {}
    /\ dCreated = 0
    /\ dLast = "none"
    /\ dRemoveFailed = FALSE

\* no temporary files of /map followed
MapOff ==
    /\ mImpl = "off"
    /\ mReq = <<>>
    /\ mThr = <<>>
    /\ mDisk = {}
    /\ mRemovedBy = <<>>

Init == PipeInit /\ SynthOff /\ DeskOff /\ MapOff

----------------------------------------------------------------------------
(* The handlers, step by step *)

\* a request arrives: the arguments are read and stripped, num_stations is
\* parsed, and empty addresses are rejected
Receive(e, qs, qe, qn) ==
    /\ pc = "idle"
    /\ entry' = e
    /\ rawStart' = qs
    /\ rawEnd' = qe
    /\ rawNum' = qn
    /\ start' = Strip(ArgOrEmpty(qs))
    /\ end' = Strip(ArgOrEmpty(qe))
    /\ num_stations' = IF IsDesktop(e) THEN 0 ELSE ParseNumStations(qn)
    /\ IF MissingInput(start', end')
         THEN /\ response' = MissingInputResponse(e)
              /\ pc' = "done"
         ELSE /\ response' = response
              /\ pc' = "geocode_start"
    /\ UNCHANGED <<geoStart, geoEnd, routeRes, synth>>
    /\ UNCHANGED synthVars
    /\ UNCHANGED <<deskVars, mapVars>>

WebRequest ==
    \E e \in Entries \ {"app.generate_map"}, qs \in StartInputs, qe \in EndInputs,
       qn \in NumInputs : Receive(e, qs, qe, qn)

\* the button: the two text fields always hold a string
DesktopRequest ==
    \E qs \in {q \in StartInputs : q.present}, qe \in {q \in EndInputs : q.present} :
        Receive("app.generate_map", qs, qe, QueryAbsent)

\* start_coords = get_coordinates(start); the desktop checks it at once
GeocodeStart ==
    /\ pc = "geocode_start"
    /\ \E o \in GeoOutcomes :
        LET r == get_coordinates(ImplOf(entry), o) IN
        /\ geoStart' = GeoCall(TRUE, o, r.raised, r.value)
        /\ IF r.raised
             THEN /\ response' = UncaughtResponse(entry)
                  /\ pc' = "done"
             ELSE IF IsDesktop(entry) /\ ~CoordTruthy(r.value)
             THEN /\ response' = NotFoundResponse(entry, start, end, r.value, NoneCoord)
                  /\ pc' = "done"
             ELSE /\ response' = response
                  /\ pc' = "geocode_end"
    /\ UNCHANGED <<entry, rawStart, rawEnd, rawNum, start, end, num_stations,
                   geoEnd, routeRes, synth>>
    /\ UNCHANGED synthVars
    /\ UNCHANGED <<deskVars, mapVars>>

\* end_coords = get_coordinates(end), then the check(s) of the coordinates
GeocodeEnd ==
    /\ pc = "geocode_end"
    /\ \E o \in GeoOutcomes :
        LET r == get_coordinates(ImplOf(entry), o) IN
        /\ geoEnd' = GeoCall(TRUE, o, r.raised, r.value)
        /\ IF r.raised
             THEN /\ response' = UncaughtResponse(entry)
                  /\ pc' = "done"
             ELSE IF CoordsMissing(geoStart.value, r.value)
             THEN /\ response' = NotFoundResponse(entry, start, end, geoStart.value, r.value)
                  /\ pc' = "done"
             ELSE /\ response' = response
                  /\ pc' = "route"
    /\ UNCHANGED <<entry, rawStart, rawEnd, rawNum, start, end, num_stations,
                   geoStart, routeRes, synth>>
    /\ UNCHANGED synthVars
    /\ UNCHANGED <<deskVars, mapVars>>

\* route_coords, duration, distance = get_route(...); if not route_coords
Route ==
    /\ pc = "route"
    /\ \E o \in RouterOutcomes :
        LET r == get_route(ImplOf(entry), geoStart.value, geoEnd.value, o) IN
        /\ routeRes' = RouteCall(TRUE, o, r)
        /\ IF r.raised
             THEN /\ response' = UncaughtResponse(entry)
                  /\ pc' = "done"
             ELSE IF RouteMissing(r.route)
             THEN /\ response' = NoRouteResponse(entry)
                  /\ pc' = "done"
             ELSE /\ response' = response
                  /\ pc' = "synthesize"
    /\ UNCHANGED <<entry, rawStart, rawEnd, rawNum, start, end, num_stations,
                   geoStart, geoEnd, synth>>
    /\ UNCHANGED synthVars
    /\ UNCHANGED <<deskVars, mapVars>>

\* stations = generate_stations_near_start(route_coords, ...)
Synthesize ==
    /\ pc = "synthesize"
    /\ LET n == StationCountArg(entry, num_stations)
           m == MaxDistanceArg(entry)
       IN  \E d \in DrawsFor(routeRes.ret.route, n, RequestDraws) :
              synth' = SynthCall(TRUE, n, m,
                           generate_stations_near_start(ImplOf(entry), routeRes.ret.route,
                                                        n, m, d))
    /\ pc' = "render"
    /\ UNCHANGED <<entry, rawStart, rawEnd, rawNum, start, end, num_stations,
                   geoStart, geoEnd, routeRes, response>>
    /\ UNCHANGED synthVars
    /\ UNCHANGED <<deskVars, mapVars>>

\* the JSON object / the map is assembled and returned
Render ==
    /\ pc = "render"
    /\ response' = SuccessResponse(entry, geoStart.value, geoEnd.value, routeRes.ret.route,
                                   synth.stations, routeRes.ret.duration,
                                   routeRes.ret.distance)
    /\ pc' = "done"
    /\ UNCHANGED <<entry, rawStart, rawEnd, rawNum, start, end, num_stations,
                   geoStart, geoEnd, routeRes, synth>>
    /\ UNCHANGED synthVars
    /\ UNCHANGED <<deskVars, mapVars>>

\* the request is over; nothing of it is kept
Finish ==
    /\ pc = "done"
    /\ entry' = "none"
    /\ pc' = "idle"
    /\ rawStart' = QueryAbsent
    /\ rawEnd' = QueryAbsent
    /\ rawNum' = QueryAbsent
    /\ start' = <<>>
    /\ end' = <<>>
    /\ num_stations' = 0
    /\ geoStart' = NoGeoCall
    /\ geoEnd' = NoGeoCall
    /\ routeRes' = NoRouteCall
    /\ synth' = NoSynthCall
    /\ response' = NoResponse
    /\ UNCHANGED synthVars
    /\ UNCHANGED <<deskVars, mapVars>>

Next ==
    \/ WebRequest
    \/ DesktopRequest
    \/ GeocodeStart
    \/ GeocodeEnd
    \/ Route
    \/ Synthesize
    \/ Render
    \/ Finish

Spec == Init /\ [][Next]_vars

----------------------------------------------------------------------------
(* The synthesizer called on its own *)

\* route points, (lat, lon): the equator, mid latitudes, the pole
SynthPoints == {[lat |-> 0, lon |-> Deg(20)], [lat |-> Deg(60), lon |-> Deg(10)],
                [lat |-> Deg(90), lon |-> 0]}

RECURSIVE SeqsUpTo(_, _)
SeqsUpTo(S, n) ==
    IF n = 0 THEN {<<>>}
    ELSE LET shorter == SeqsUpTo(S, n - 1) IN
         shorter \cup {Append(q, x) : q \in {t \in shorter : Len(t) = n - 1}, x \in S}

SynthRoutes == {NoneRoute} \cup {SomeRoute(p) : p \in SeqsUpTo(SynthPoints, MaxRouteLen)}
SynthCounts == -1..MaxCount
SynthMaxDistances == {DefaultMaxDistanceApp, MapMaxDistance}
SynthDraws == {-2, 2} \X {-2, 1, 2}

SynthInit ==
    /\ PipeInit
    /\ DeskOff
    /\ MapOff
    /\ sPc = "call"
    /\ sImpl \in Impls
    /\ sRoute \in SynthRoutes
    /\ sCount \in SynthCounts
    /\ sMax \in SynthMaxDistances
    /\ sDraws = <<>>
    /\ sStations = <<>>

SynthRun ==
    /\ sPc = "call"
    /\ \E d \in DrawsFor(sRoute, sCount, SynthDraws) :
        /\ sDraws' = d
        /\ sStations' = generate_stations_near_start(sImpl, sRoute, sCount, sMax, d)
    /\ sPc' = "returned"
    /\ UNCHANGED <<sImpl, sRoute, sCount, sMax>>
    /\ UNCHANGED pipeVars
    /\ UNCHANGED <<deskVars, mapVars>>

SynthNext == SynthRun

SynthSpec == SynthInit /\ [][SynthNext]_vars

----------------------------------------------------------------------------
(* The synthesizer called on a route longer than the placement window *)

\* a route of LongRouteLen points one degree of latitude apart, so that the
\* point a station was placed at can be told from the station
LongRoute == [k \in 1..LongRouteLen |-> [lat |-> Deg(k), lon |-> Deg(10)]]

LongInit ==
    /\ PipeInit
    /\ DeskOff
    /\ MapOff
    /\ sPc = "call"
    /\ sImpl \in Impls
    /\ sRoute = SomeRoute(LongRoute)
    /\ sCount \in 0..(LongRouteLen + 1)
    /\ sMax \in SynthMaxDistances
    /\ sDraws = <<>>
    /\ sStations = <<>>

LongRun ==
    /\ sPc = "call"
    /\ \E d \in DrawsFor(sRoute, sCount, RequestDraws) :
        /\ sDraws' = d
        /\ sStations' = generate_stations_near_start(sImpl, sRoute, sCount, sMax, d)
    /\ sPc' = "returned"
    /\ UNCHANGED <<sImpl, sRoute, sCount, sMax>>
    /\ UNCHANGED pipeVars
    /\ UNCHANGED <<deskVars, mapVars>>

LongNext == LongRun

LongSpec == LongInit /\ [][LongNext]_vars

----------------------------------------------------------------------------
(* The desktop window and its temporary map files (app.py, RouteMapperApp).
   A press of "Generar Mapa" runs the pipeline modelled above; here it is
   summarised by how far generate_map got, which is all that decides what
   happens to the files.  mkstemp names are unique: file k is the k-th file
   the window created. *)

\* how a press can end without creating a file: a return before the try
\* block of line 249, an exception of the pipeline, or mkstemp raising
NoFileOutcomes ==
    {"missing_input", "address_not_found", "no_route", "uncaught_exception",
     "mkstemp_failed"}

\* how a press can end once mkstemp has created the file
SaveOutcomes == {"save_failed", "ok"}

DeskInit ==
    /\ PipeInit
    /\ SynthOff
    /\ MapOff
    /\ dWindow = "open"
    /\ dTempPath = 0
    /\ dDisk = {}
    /\ dCreated = 0
    /\ dLast = "none"
    /\ dRemoveFailed = FALSE

\* generate_map: a press that creates no file
PressEarly ==
    /\ dWindow = "open"
    /\ \E o \in NoFileOutcomes : dLast' = o
    /\ UNCHANGED <<dWindow, dTempPath, dDisk, dCreated, dRemoveFailed>>
    /\ UNCHANGED <<pipeVars, synthVars, mapVars>>

\* generate_map: mkstemp created a file; m.save raises or succeeds
PressSave ==
    /\ dWindow = "open"
    /\ dCreated < MaxPresses
    /\ dCreated' = dCreated + 1
    /\ dDisk' = dDisk \cup {dCreated + 1}
    /\ \E o \in SaveOutcomes :
         /\ dLast' = o
         /\ dTempPath' = IF o = "ok" THEN dCreated + 1 ELSE dTempPath
    /\ UNCHANGED <<dWindow, dRemoveFailed>>
    /\ UNCHANGED <<pipeVars, synthVars, mapVars>>

\* closeEvent; os.remove succeeds or raises, and what it raises is swallowed
closeEvent ==
    /\ dWindow = "open"
    /\ dWindow' = "closed"
    /\ IF dTempPath # 0 /\ dTempPath \in dDisk
       THEN \E removed \in BOOLEAN :
              /\ dDisk' = IF removed THEN dDisk \ {dTempPath} ELSE dDisk
              /\ dRemoveFailed' = ~removed
       ELSE UNCHANGED <<dDisk, dRemoveFailed>>
    /\ UNCHANGED <<dTempPath, dCreated, dLast>>
    /\ UNCHANGED <<pipeVars, synthVars, mapVars>>

DeskNext == PressEarly \/ PressSave \/ closeEvent

DeskSpec == DeskInit /\ [][DeskNext]_vars

----------------------------------------------------------------------------
(* The temporary files of GET /map (app.py map_web, app_web.py map_view).
   A request enters this part once the pipeline modelled above has produced
   the map object; requests that fail earlier create no file.  Several
   requests are served concurrently, each in its own thread.
   NamedTemporaryFile names are unique: request r creates the file named r. *)

MapRequests == 1..MaxMapRequests

IdleReq == [pc |-> "idle", status |-> 0, sent |-> FALSE]
NoThread == [state |-> "none", path |-> 0, elapsed |-> 0,
             outcome |-> "none", starts |-> 0]

\* who removed a file: nobody yet, somebody outside the server, or thread r
Nobody == 0
Outside == 0 - 1

MapInit ==
    /\ PipeInit
    /\ SynthOff
    /\ DeskOff
    /\ mImpl \in Impls
    /\ mReq = [r \in MapRequests |-> IdleReq]
    /\ mThr = [r \in MapRequests |-> NoThread]
    /\ mDisk = {}
    /\ mRemovedBy = [r \in MapRequests |-> Nobody]

\* tempfile.NamedTemporaryFile(suffix=".html", delete=False); tmp.close()
CreateTemp(r) ==
    /\ mReq[r].pc = "idle"
    /\ mReq' = [mReq EXCEPT ![r].pc = "created"]
    /\ mDisk' = mDisk \cup {r}
    /\ UNCHANGED <<mImpl, mThr, mRemovedBy>>
    /\ UNCHANGED <<pipeVars, synthVars, deskVars>>

\* m.save(tmp.name): writes the file (creating it again if it is gone), or
\* raises, which ends the request with status 500
SaveMap(r) ==
    /\ mReq[r].pc = "created"
    /\ \E ok \in BOOLEAN :
         IF ok
         THEN /\ mReq' = [mReq EXCEPT ![r].pc = "saved"]
              /\ mDisk' = mDisk \cup {r}
              /\ mRemovedBy' = [mRemovedBy EXCEPT ![r] = Nobody]
         ELSE /\ mReq' = [mReq EXCEPT ![r].pc = "raised", ![r].status = 500]
              /\ UNCHANGED <<mDisk, mRemovedBy>>
    /\ UNCHANGED <<mImpl, mThr>>
    /\ UNCHANGED <<pipeVars, synthVars, deskVars>>

\* where send_file is called: app.py before the thread is started,
\* app_web.py after
SendFileAt(impl) == IF impl = "app" THEN "saved" ELSE "started"
\* where Thread(...).start() is called
StartThreadAt(impl) == IF impl = "app" THEN "built" ELSE "saved"

\* send_file(tmp.name, ...): raises when the file is gone
SendFile(r) ==
    /\ mReq[r].pc = SendFileAt(mImpl)
    /\ mReq' = [mReq EXCEPT ![r] =
           IF r \notin mDisk
           THEN [pc |-> "raised", status |-> 500, sent |-> FALSE]
           ELSE IF mImpl = "app"
                THEN [pc |-> "built", status |-> 0, sent |-> FALSE]
                ELSE [pc |-> "returned", status |-> 200, sent |-> FALSE]]
    /\ UNCHANGED <<mImpl, mThr, mDisk, mRemovedBy>>
    /\ UNCHANGED <<pipeVars, synthVars, deskVars>>

\* threading.Thread(target=..., args=(tmp.name, 30), daemon=True).start();
\* in app.py the handler then returns resp
StartThread(r) ==
    /\ mReq[r].pc = StartThreadAt(mImpl)
    /\ mThr' = [mThr EXCEPT ![r] =
           [state |-> "sleeping", path |-> r, elapsed |-> 0,
            outcome |-> "none", starts |-> mThr[r].starts + 1]]
    /\ mReq' = [mReq EXCEPT ![r] =
           IF mImpl = "app"
           THEN [pc |-> "returned", status |-> 200, sent |-> FALSE]
           ELSE [pc |-> "started", status |-> 0, sent |-> FALSE]]
    /\ UNCHANGED <<mImpl, mDisk, mRemovedBy>>
    /\ UNCHANGED <<pipeVars, synthVars, deskVars>>

\* the client has read the whole response
Deliver(r) ==
    /\ mReq[r].pc = "returned"
    /\ ~mReq[r].sent
    /\ mReq' = [mReq EXCEPT ![r].sent = TRUE]
    /\ UNCHANGED <<mImpl, mThr, mDisk, mRemovedBy>>
    /\ UNCHANGED <<pipeVars, synthVars, deskVars>>

\* time.sleep(delay) is over
SleepOverAtOnce(elapsed) == TRUE   \* faulty variant: no delay
SleepOver(elapsed) == elapsed >= CleanupDelay

\* time passes for every sleeping thread (in steps of half the delay)
Tick ==
    /\ \E r \in MapRequests :
         mThr[r].state = "sleeping" /\ mThr[r].elapsed < CleanupDelay
    /\ mThr' = [r \in MapRequests |->
           IF mThr[r].state = "sleeping"
           THEN [mThr[r] EXCEPT !.elapsed =
                    Min(mThr[r].elapsed + CleanupDelay \div 2, CleanupDelay)]
           ELSE mThr[r]]
    /\ UNCHANGED <<mImpl, mReq, mDisk, mRemovedBy>>
    /\ UNCHANGED <<pipeVars, synthVars, deskVars>>

\* time.sleep(delay) returns; if os.path.exists(path):
Wake(r) ==
    /\ mThr[r].state = "sleeping"
    /\ SleepOver(mThr[r].elapsed)
    /\ mThr' = [mThr EXCEPT ![r] =
           IF mThr[r].path \in mDisk
           THEN [mThr[r] EXCEPT !.state = "removing"]
           ELSE [mThr[r] EXCEPT !.state = "done", !.outcome = "absent"]]
    /\ UNCHANGED <<mImpl, mReq, mDisk, mRemovedBy>>
    /\ UNCHANGED <<pipeVars, synthVars, deskVars>>

\* os.remove(path): removes the file, or raises (the file went away since
\* the check, or the removal is not permitted); except Exception: pass
Remove(r) ==
    /\ mThr[r].state = "removing"
    /\ \E permitted \in BOOLEAN :
         IF permitted /\ mThr[r].path \in mDisk
         THEN /\ mDisk' = mDisk \ {mThr[r].path}
              /\ mRemovedBy' = [mRemovedBy EXCEPT ![mThr[r].path] = r]
              /\ mThr' = [mThr EXCEPT ![r].state = "done",
                                      ![r].outcome = "removed"]
         ELSE /\ mThr' = [mThr EXCEPT ![r].state = "done",
                                      ![r].outcome = "error"]
              /\ UNCHANGED <<mDisk, mRemovedBy>>
    /\ UNCHANGED <<mImpl, mReq>>
    /\ UNCHANGED <<pipeVars, synthVars, deskVars>>

\* something outside the server removes a temporary file
ExternalRemove(p) ==
    /\ p \in mDisk
    /\ mDisk' = mDisk \ {p}
    /\ mRemovedBy' = [mRemovedBy EXCEPT ![p] = Outside]
    /\ UNCHANGED <<mImpl, mReq, mThr>>
    /\ UNCHANGED <<pipeVars, synthVars, deskVars>>

\* the steps of the handler after the file exists, and of its thread
HandlerStep(r) == SaveMap(r) \/ SendFile(r) \/ StartThread(r)
ThreadStep(r) == Wake(r) \/ Remove(r)

MapNext ==
    \/ \E r \in MapRequests : CreateTemp(r)
    \/ \E r \in MapRequests : HandlerStep(r)
    \/ \E r \in MapRequests : Deliver(r)
    \/ Tick
    \/ \E r \in MapRequests : ThreadStep(r)
    \/ \E p \in MapRequests : ExternalRemove(p)

\* the server process keeps running: a handler that has started goes on,
\* time passes, and every started thread gets to run
MapFair ==
    /\ WF_vars(Tick)
    /\ \A r \in MapRequests : WF_vars(HandlerStep(r)) /\ WF_vars(ThreadStep(r))

MapSpec == MapInit /\ [][MapNext]_vars /\ MapFair

----------------------------------------------------------------------------
(* Properties *)

\* an address that is missing, empty or only whitespace
Blank(q) == ~q.present \/ q.val \in {<<>>, <<" ">>, <<" ", " ">>}

WebStatusIs(n) == IsDesktop(entry) \/ response.status = n

\* C1: a request whose start or end address is missing, empty or only
\* whitespace ends in Failed(missing_input) (400 on the web surface), and at no
\* point of it has the geocoder or the router been called, whatever
\* num_stations is.
C1_MissingInputNoCalls ==
    (entry # "none" /\ (Blank(rawStart) \/ Blank(rawEnd))) =>
        /\ pc = "done"
        /\ response.reason = "missing_input"
        /\ WebStatusIs(400)
        /\ geocoderCalls = 0
        /\ routerCalls = 0
        /\ ~geoStart.called /\ ~geoEnd.called /\ ~routeRes.called

C1_Witness ==
    /\ entry = "app_web.map_view"
    /\ rawStart = Query(<<"A">>)
    /\ rawEnd = Query(<<" ", " ">>)
    /\ rawNum = Query(<<"x">>)
    /\ pc = "done"
    /\ response.status = 400

GeoAbsent(call) == call.called /\ ~call.raised /\ ~call.value.some

\* C2: if the geocoder returns absent for the start or for the end address, the
\* request ends in Failed(address_not_found) (404 on the web surface) and the
\* router is never called in it, for every combination of geocoder outcomes.
C2_AbsentGeocodeIsNotFound ==
    (GeoAbsent(geoStart) \/ GeoAbsent(geoEnd)) =>
        /\ routerCalls = 0
        /\ ~routeRes.called
        /\ pc = "done" => (response.reason = "address_not_found" /\ WebStatusIs(404))

\* C3: every provider-level failure is converted by the adapter into an absent
\* result; no get_coordinates or get_route call raises to the handler.
C3_AdaptersNeverRaise ==
    /\ geoStart.called => ~geoStart.raised
    /\ geoEnd.called => ~geoEnd.raised
    /\ routeRes.called => ~routeRes.ret.raised
    /\ (geoStart.called /\ geoStart.outcome.kind # "location") => ~geoStart.value.some
    /\ (geoEnd.called /\ geoEnd.outcome.kind # "location") => ~geoEnd.value.some
    /\ (routeRes.called /\ routeRes.outcome.kind # "body") => ~routeRes.ret.route.some

\* the router gave no usable route: the adapter returned None or an empty list;
\* the provider answered with an error, an empty route list, or a first route
\* of zero points
RouterGaveNoRoute ==
    /\ routeRes.called
    /\ \/ ~routeRes.ret.raised /\ (~routeRes.ret.route.some \/ routeRes.ret.route.pts = <<>>)
       \/ routeRes.outcome.kind \in {"ConnectionError", "HTTPError"}
       \/ /\ routeRes.outcome.kind = "body"
          /\ routeRes.outcome.body.hasRoutes
          /\ routeRes.outcome.body.routes = <<>>
       \/ /\ routeRes.outcome.kind = "body"
          /\ routeRes.outcome.body.hasRoutes
          /\ routeRes.outcome.body.routes # <<>>
          /\ LET r == routeRes.outcome.body.routes[1] IN
             r.hasGeometry /\ r.hasDuration /\ r.hasDistance /\ r.coordinates = <<>>

\* C4: when both addresses resolve and the router returns an absent route, an
\* empty route list or a first route of zero points, the request ends in
\* Failed(no_route) (500 on the web surface), the synthesizer is not called and
\* nothing is rendered; a success always carries a route of at least one point.
C4_NoRouteFails ==
    /\ RouterGaveNoRoute =>
          /\ pc = "done"
          /\ response.reason = "no_route"
          /\ WebStatusIs(500)
          /\ ~synth.called
          /\ response.payload = NoPayload
    /\ response.reason = "ok" => Len(response.payload.route) >= 1

C4_Witness ==
    /\ entry = "app.api_route_web"
    /\ geoStart.value.some /\ geoEnd.value.some
    /\ routeRes.outcome.kind = "body"
    /\ routeRes.outcome.body.routes # <<>>
    /\ routeRes.outcome.body.routes[1].hasGeometry
    /\ routeRes.outcome.body.routes[1].coordinates = <<>>
    /\ response.status = 500
    /\ response.reason = "no_route"

\* C5: generate_stations_near_start returns exactly count stations for every
\* count >= 0 and every non-empty route (also one shorter than count), and the
\* empty sequence for an empty or absent route.
C5_ExactlyCountStations ==
    sPc = "returned" =>
        IF sRoute.some /\ sRoute.pts # <<>>
        THEN sCount >= 0 => Len(sStations) = sCount
        ELSE sStations = <<>>

C5_Witness ==
    /\ sPc = "returned"
    /\ sRoute.some /\ Len(sRoute.pts) = 1
    /\ sCount = 3
    /\ Len(sStations) = 3

\* C6: every station lies within max_distance_meters/111000 degrees of its
\* anchor route point (lengths in units of 1/111000 degree).
C6_StationsWithinMaxDistance ==
    sPc = "returned" =>
        \A k \in 1..Len(sStations) :
            LET anchor == sRoute.pts[IF k < Len(sRoute.pts) THEN k ELSE Len(sRoute.pts)]
                dlat == sStations[k].lat - anchor.lat
                dlon == sStations[k].lon - anchor.lon
            IN  dlat * dlat + dlon * dlon <= sMax * sMax

\* the station count a valid non-negative num_stations literal asks for
AskedCount ==
    CASE rawNum = Query(<<"2">>) -> 2
      [] rawNum = Query(<<"0">>) -> 0
      [] rawNum = Query(<<"+", "1">>) -> 1
      [] rawNum = Query(<<" ", "2", " ">>) -> 2
      [] OTHER -> -1

\* C7: a successful GET /api/route reproduces the provider results: start and
\* end are the geocoder's coordinates for the start and the end address, route
\* is the router's point sequence in order as lat/lng pairs, duration_seconds
\* and distance_meters are the router's values, and stations has exactly
\* num_stations entries.
C7_ApiRouteReproducesProviders ==
    (IsApi(entry) /\ pc = "done" /\ response.reason = "ok") =>
        LET p == response.payload
            r == routeRes.outcome.body.routes[1]
        IN  /\ response.status = 200
            /\ p.start = [lat |-> geoStart.outcome.lat, lng |-> geoStart.outcome.lon]
            /\ p.end = [lat |-> geoEnd.outcome.lat, lng |-> geoEnd.outcome.lon]
            /\ Len(p.route) = Len(r.coordinates)
            /\ \A i \in 1..Len(p.route) :
                  p.route[i] = [lat |-> r.coordinates[i][2], lng |-> r.coordinates[i][1]]
            /\ p.duration = (IF r.hasDuration THEN SomeNum(r.duration) ELSE NoneNum)
            /\ p.distance = (IF r.hasDistance THEN SomeNum(r.distance) ELSE NoneNum)
            /\ AskedCount >= 0 => Len(p.stations) = AskedCount

\* the spec's round trip: A -> (10,10), B -> (10,11), a two-point route of
\* duration 600 and distance 5000, num_stations=2
C7_Witness ==
    /\ entry = "app.api_route_web"
    /\ pc = "done"
    /\ rawStart = Query(<<"A">>) /\ rawEnd = Query(<<"B">>) /\ rawNum = Query(<<"2">>)
    /\ geoStart.outcome = GeoOutcome("location", Deg(10), Deg(10))
    /\ geoEnd.outcome = GeoOutcome("location", Deg(10), Deg(11))
    /\ response.payload.start = [lat |-> Deg(10), lng |-> Deg(10)]
    /\ response.payload.end = [lat |-> Deg(10), lng |-> Deg(11)]
    /\ Len(response.payload.route) = 2
    /\ Len(response.payload.stations) = 2
    /\ response.payload.duration = SomeNum(600)
    /\ response.payload.distance = SomeNum(5000)

\* a num_stations value that is no integer literal, or none at all
NoIntegerLiteral ==
    rawNum \in {QueryAbsent, Query(<<>>), Query(<<"x">>), Query(<<"2", ".", "5">>)}

\* C8: a num_stations value that is not a valid integer literal (text, a
\* decimal, the empty string) never fails the request: the web handlers go on
\* with the default count 3, as they do when num_stations is omitted.
C8_MalformedNumStationsDefaults ==
    (entry # "none" /\ ~IsDesktop(entry) /\ NoIntegerLiteral) =>
        /\ num_stations = 3
        /\ (~Blank(rawStart) /\ ~Blank(rawEnd)) =>
              /\ response.reason # "missing_input"
              /\ pc = "done" => geoStart.called
        /\ synth.called => synth.count = 3
        /\ response.reason = "ok" => Len(response.payload.stations) = 3

C8_Witness ==
    /\ entry = "app.map_web"
    /\ rawNum = Query(<<"2", ".", "5">>)
    /\ pc = "done"
    /\ response.reason = "ok"
    /\ Len(response.payload.stations) = 3

\* the failure message names an address of the request that did not resolve
NamesFailedAddress ==
    /\ response.message.hasAddr
    /\ \/ response.message.addr = start /\ GeoAbsent(geoStart)
       \/ response.message.addr = end /\ GeoAbsent(geoEnd)

\* C9 as stated: in every entry point a Failed(address_not_found) names the
\* address that failed to resolve.
C9_NotFoundNamesAddress ==
    response.reason = "address_not_found" => NamesFailedAddress

\* C9 as amended: GET /api/route (both files) and the desktop handler name the
\* address that failed to resolve; GET /map (both files) answers with a fixed
\* message that names no address.
C9_NotFoundNamesAddressExceptMap ==
    response.reason = "address_not_found" =>
        IF IsMap(entry) THEN ~response.message.hasAddr ELSE NamesFailedAddress

C9_Witness ==
    /\ entry = "app_web.api_route"
    /\ response.reason = "address_not_found"
    /\ geoStart.value.some
    /\ GeoAbsent(geoEnd)
    /\ response.message.addr = <<"B">>

\* C10: the station count handed to generate_stations_near_start is never
\* negative.
C10_StationCountNonNegative ==
    synth.called => synth.count >= 0

\* the station lies within the offset ranges of the route point p
PlacedAt(st, p) ==
    /\ Abs(st.lat - p.lat) <= sMax
    /\ Abs(st.lon - p.lon) <= 4 * sMax

\* C12: station i (from 0) is anchored at route[min(i, 4)]: on a route longer
\* than the window of 5 points every station beyond the window reuses the
\* last in-window point and none is anchored further along the route, in
\* app.py as in app_web.py.
C12_AnchorsStayInWindow ==
    (sPc = "returned" /\ sRoute.some /\ Len(sRoute.pts) > 5) =>
        \A k \in 1..Len(sStations) :
            /\ PlacedAt(sStations[k], sRoute.pts[IF k <= 5 THEN k ELSE 5])
            /\ \A j \in 6..Len(sRoute.pts) : ~PlacedAt(sStations[k], sRoute.pts[j])

\* C11: once the window is closed, and no removal failed, none of the
\* temporary map files the window created is left on disk.
C11_NoTempFileAfterClose ==
    (dWindow = "closed" /\ ~dRemoveFailed) => dDisk = {}

\* request r is over and no cleanup thread of it is still to act
AtRest(r) ==
    /\ mReq[r].pc \in {"returned", "raised"}
    /\ mThr[r].state \in {"none", "done"}

\* C13 as stated: every temporary file a /map request creates is deleted in
\* the end; once the request is over and its cleanup thread, if any, has
\* finished, the file is gone.
C13_EveryMapFileDeleted ==
    \A r \in MapRequests : AtRest(r) => r \notin mDisk

\* one cleanup thread per rendered file, which removes only that file, and
\* only once the delay has elapsed; what it does leaves the response alone
CleanupSafe ==
    \A r \in MapRequests :
        /\ mThr[r].starts <= 1
        /\ mReq[r].pc = "returned" => (mThr[r].starts = 1 /\ mReq[r].status = 200)
        /\ mThr[r].state # "none" => mThr[r].path = r
        /\ mRemovedBy[r] \in {Nobody, Outside, r}
        /\ mThr[r].outcome = "removed" =>
               (mThr[r].elapsed >= CleanupDelay /\ mRemovedBy[r] = r)
        /\ (mThr[r].starts = 0 /\ mReq[r].pc = "raised") => mReq[r].status = 500

\* a response, once made, is never changed
ResponsesKept ==
    \A r \in MapRequests :
        mReq[r].pc \in {"returned", "raised"} =>
            /\ mReq'[r].pc = mReq[r].pc
            /\ mReq'[r].status = mReq[r].status

\* a cleanup thread that has finished has left its file gone, unless its
\* one attempt to remove it raised
CleanupDone ==
    \A r \in MapRequests :
        mThr[r].state = "done" => (mThr[r].outcome = "error" \/ r \notin mDisk)

\* C13, amended: for every temporary file whose map was rendered exactly one
\* cleanup thread is started; it removes that file and no other, once the 30
\* seconds have elapsed and whether or not the response has been delivered;
\* an error of the removal is swallowed and changes no response; every
\* started thread finishes, and then the file is gone unless that one
\* removal raised.
C13_StartedCleanupRemovesOrGivesUp ==
    /\ []CleanupSafe
    /\ []CleanupDone
    /\ [][ResponsesKept]_vars
    /\ \A r \in MapRequests : []<>(mThr[r].state \in {"none", "done"})

\* a thread has removed its file while the response is still being read
\* and the file of a concurrent request is still there
C13_Witness ==
    \E r \in MapRequests : \E q \in MapRequests \ {r} :
        /\ mRemovedBy[r] = r
        /\ mReq[r].pc = "returned"
        /\ ~mReq[r].sent
        /\ q \in mDisk
        /\ mThr[q].state = "sleeping"

====
